---- MODULE Spec2Model ----
(***************************************************************************)
(* Model of the ERC-4337 validation simulator of src/common/simulation.rs: *)
(* the stake predicate, the storage-restriction classifier, the context    *)
(* builder, the rule engine over the trace and the post-validation join of *)
(* simulate_validation.                                                    *)
(*                                                                         *)
(* Option<T> is modelled as a sequence: None is <<>> and Some(x) is <<x>>. *)
(* Addresses, slots, opcodes and hashes are model values (strings).        *)
(***************************************************************************)
EXTENDS Integers, Sequences, FiniteSets, TLC

VARIABLES
    op,                     \* the UserOperation of the call
    block_id,               \* Option<BlockId> argument
    expected_code_hash,     \* Option<H256> argument
    latest,                 \* the node's latest block number
    pc,                     \* position of the call: start, trace, join, done
    block_hash,             \* Option: the pinned block hash
    tracer_out,             \* Option: the TracerOutput of the traced call
    context,                \* Option: the ValidationContext, but for its tracer_out
    violations,             \* the Vec<Violation> of simulate_validation
    entities_needing_stake, \* Vec<Entity>
    accessed_addresses,     \* HashSet<Address>
    code_hash_task,         \* the code-hash future: idle, pending, ok, err, cancelled
    aggregator_task,        \* the aggregator future, same states
    reads,                  \* log of the on-chain reads served by the node
    result,                 \* Option: what the call returned
    run,                    \* 1 for a first call, 2 for its repetition
    first,                  \* Option: summary of the first call, kept for the second
    unit                    \* inputs and output of a pure function under check

vars == <<op, block_id, expected_code_hash, latest, pc, block_hash, tracer_out,
          context, violations, entities_needing_stake, accessed_addresses,
          code_hash_task, aggregator_task, reads, result, run, first, unit>>

-----------------------------------------------------------------------------
(* Bounds of the model.                                                    *)

\* Largest number of items (opcodes, flags, slot accesses, ...) by which a
\* trace drawn for the rule engine differs from a clean trace.
MaxItems == 2

\* Largest number of phases a trace carries (more than 3 is a broken entry point).
MaxPhases == 4

\* The number of phases of a well-formed validation trace.
ValidationPhases == 3

\* Highest block number the node reaches.
MaxBlock == 1

\* Largest stake and unstake delay drawn for the stake predicate.
MaxStake == 3

-----------------------------------------------------------------------------
(* Option                                                                  *)

None == <<>>

Some(x) == <<x>>

IsSome(o) == o # <<>>

Unwrap(o) == o[1]

-----------------------------------------------------------------------------
(* Model values                                                            *)

SENDER == "S"

FACTORY == "F"

PAYMASTER == "P"

ENTRY_POINT == "EP"

AGGREGATOR == "AG"

UNRELATED == "X"

\* Addresses a phase may touch in storage.
AccessAddrs == {SENDER, FACTORY, PAYMASTER, ENTRY_POINT}

\* Storage slots: kS is associated with the sender, kE with the factory and
\* the paymaster, k0 with nobody.
Slots == {"kS", "kE", "k0"}

Opcodes == {"SELFBALANCE", "GASPRICE"}

Flags == {"used_invalid_gas_opcode", "called_with_value", "ran_out_of_gas",
          "called_handle_ops"}

\* sim_settings of the simulator under check (Settings::new).
SimSettings == [min_unstake_delay |-> 1, min_stake_value |-> 2]

-----------------------------------------------------------------------------
(* UserOperation: sender, init_code and paymaster_and_data.  The factory   *)
(* and the paymaster are the leading address of init_code and of           *)
(* paymaster_and_data, absent when the field is empty.                     *)

UserOperations ==
    [sender : {SENDER},
     init_code : {<<>>, <<FACTORY>>},
     paymaster_and_data : {<<>>, <<PAYMASTER>>}]

factory(o) == IF o.init_code = <<>> THEN None ELSE Some(o.init_code[1])

paymaster(o) ==
    IF o.paymaster_and_data = <<>> THEN None ELSE Some(o.paymaster_and_data[1])

-----------------------------------------------------------------------------
(* StakeInfo, ValidationOutput and the revert payload                      *)

StakeInfoOf(stake, delay) == [stake |-> stake, unstake_delay_sec |-> delay]

Unstaked == StakeInfoOf(0, 0)

Staked == StakeInfoOf(SimSettings.min_stake_value, SimSettings.min_unstake_delay)

\* The stake records a trace may report for an entity.
StakeInfos == {Unstaked, Staked}

\* ValidationOutput of an operation with no stake anywhere, no paymaster
\* context and no aggregator.
PlainOutput ==
    [return_info |-> [pre_op_gas |-> 7, sig_failed |-> FALSE, valid_after |-> 0,
                      valid_until |-> 9, paymaster_context |-> <<>>],
     sender_info |-> Unstaked,
     factory_info |-> Unstaked,
     paymaster_info |-> Unstaked,
     aggregator_info |-> None]

\* revert_data is the ABI-encoded error: a selector and its arguments.
RevertOutput(vo) == [selector |-> "ValidationOutput", reason |-> "", output |-> vo]

RevertFailedOp == [selector |-> "FailedOp", reason |-> "AA23 reverted",
                   output |-> PlainOutput]

RevertUnknown == [selector |-> "Panic", reason |-> "", output |-> PlainOutput]

\* FailedOp::decode_hex: Ok exactly on the FailedOp selector.
FailedOp_decode_hex(rd) ==
    IF rd.selector = "FailedOp" THEN Some([reason |-> rd.reason]) ELSE None

\* ValidationOutput::decode_hex: Ok exactly on the ValidationOutput selector.
ValidationOutput_decode_hex(rd) ==
    IF rd.selector = "ValidationOutput" THEN Some(rd.output) ELSE None

-----------------------------------------------------------------------------
(* TracerOutput                                                            *)

CleanPhase ==
    [forbidden_opcodes_used |-> <<>>,
     used_invalid_gas_opcode |-> FALSE,
     storage_accesses |-> <<>>,
     called_with_value |-> FALSE,
     ran_out_of_gas |-> FALSE,
     undeployed_contract_accesses |-> <<>>,
     called_handle_ops |-> FALSE]

\* The associated-slot relation the tracer reports.
AssociatedSlots ==
    [a \in {SENDER, FACTORY, PAYMASTER} |->
        IF a = SENDER THEN {"kS"} ELSE {"kE"}]

is_associated_slot(slots_by_address, address, slot) ==
    /\ address \in DOMAIN slots_by_address
    /\ slot \in slots_by_address[address]

\* A trace of n phases in which nothing happened and the entry point
\* reverted with a plain ValidationOutput.
CleanTrace(n) ==
    [phases |-> [i \in 1..n |-> CleanPhase],
     revert_data |-> Some(RevertOutput(PlainOutput)),
     accessed_contract_addresses |-> <<SENDER>>,
     associated_slots_by_address |-> AssociatedSlots,
     expected_storage |-> <<[address |-> SENDER,
                             slots |-> <<[slot |-> "kS", value |-> 1]>>]>>,
     factory_called_create2_twice |-> FALSE]

\* Index of the storage access of address a in accs, 0 if there is none.
AccessIndex(accs, a) ==
    IF \E i \in 1..Len(accs) : accs[i].address = a
    THEN CHOOSE i \in 1..Len(accs) : accs[i].address = a
    ELSE 0

\* One more slot touched at address a: a further slot of a's StorageAccess,
\* or a new StorageAccess at the end of the list.
AddSlot(accs, a, s) ==
    LET i == AccessIndex(accs, a) IN
    IF i = 0
    THEN Append(accs, [address |-> a, slots |-> <<s>>])
    ELSE [accs EXCEPT ![i].slots = Append(@, s)]

\* A trace item: one thing the tracer records in phase number `phase`
\* (1..3), or in the trace as a whole (phase 0).  rank orders the items of
\* a trace; the items of one list (the opcodes, the slot accesses of one
\* phase) share a rank and are recorded in any order.
Item(phase, rank, kind, x, y) ==
    [phase |-> phase, rank |-> rank, kind |-> kind, x |-> x, y |-> y]

PhaseItems(i) ==
    {Item(i, 10 * i + 1, "opcode", o, "") : o \in Opcodes}
    \cup {Item(i, 10 * i + 2, "slot", a, s) : a \in AccessAddrs, s \in Slots}
    \cup {Item(i, 10 * i + 3, "undeployed", UNRELATED, "")}
    \cup {Item(i, 10 * i + 4, "flag", "used_invalid_gas_opcode", ""),
          Item(i, 10 * i + 5, "flag", "called_with_value", ""),
          Item(i, 10 * i + 6, "flag", "ran_out_of_gas", ""),
          Item(i, 10 * i + 7, "flag", "called_handle_ops", "")}

TraceWideItems ==
    {Item(0, 41, "revert", "none", ""),
     Item(0, 41, "revert", "FailedOp", ""),
     Item(0, 41, "revert", "unknown", ""),
     Item(0, 42, "staked", "sender_info", ""),
     Item(0, 43, "staked", "factory_info", ""),
     Item(0, 44, "staked", "paymaster_info", ""),
     Item(0, 45, "paymaster_context", "", ""),
     Item(0, 46, "aggregator", "staked", ""),
     Item(0, 46, "aggregator", "unstaked", ""),
     Item(0, 47, "create2_twice", "", ""),
     Item(0, 48, "contract", UNRELATED, "")}

\* The items a trace of n phases may hold.  A trace of more than three
\* phases is rejected on its length alone: its phase records stay clean.
ItemsOf(n) ==
    TraceWideItems
    \cup (IF n > 3 THEN {} ELSE UNION {PhaseItems(i) : i \in 1..n})

ListRanked(it) == it.kind \in {"opcode", "slot", "undeployed"}

\* Whether the items of sequence s are in rank order.
InRankOrder(s) ==
    \A j \in 1..(Len(s) - 1) :
       \/ s[j].rank < s[j + 1].rank
       \/ s[j].rank = s[j + 1].rank /\ ListRanked(s[j])

\* The ValidationOutput vo with item it recorded.
OutputWith(vo, it) ==
    IF it.kind = "staked" THEN [vo EXCEPT ![it.x] = Staked]
    ELSE IF it.kind = "paymaster_context"
    THEN [vo EXCEPT !.return_info.paymaster_context = <<"ctx">>]
    ELSE IF it.kind = "aggregator"
    THEN [vo EXCEPT !.aggregator_info =
              Some([address |-> AGGREGATOR,
                    stake_info |-> IF it.x = "staked" THEN Staked ELSE Unstaked])]
    ELSE vo

\* The phase record p with item it recorded.
PhaseWith(p, it) ==
    IF it.kind = "opcode" THEN [p EXCEPT !.forbidden_opcodes_used = Append(@, it.x)]
    ELSE IF it.kind = "slot" THEN [p EXCEPT !.storage_accesses = AddSlot(@, it.x, it.y)]
    ELSE IF it.kind = "undeployed"
    THEN [p EXCEPT !.undeployed_contract_accesses = Append(@, it.x)]
    ELSE [p EXCEPT ![it.x] = TRUE]

\* The trace t with item it recorded.  The items of a ValidationOutput
\* only exist in a revert that carries one.
TraceWith(t, it) ==
    IF it.phase > 0 THEN [t EXCEPT !.phases[it.phase] = PhaseWith(@, it)]
    ELSE IF it.kind = "revert"
    THEN [t EXCEPT !.revert_data =
              IF it.x = "none" THEN None
              ELSE IF it.x = "FailedOp" THEN Some(RevertFailedOp)
              ELSE Some(RevertUnknown)]
    ELSE IF it.kind = "create2_twice"
    THEN [t EXCEPT !.factory_called_create2_twice = TRUE]
    ELSE IF it.kind = "contract"
    THEN [t EXCEPT !.accessed_contract_addresses = Append(@, it.x)]
    ELSE IF IsSome(t.revert_data)
            /\ Unwrap(t.revert_data).selector = "ValidationOutput"
    THEN [t EXCEPT !.revert_data =
              Some(RevertOutput(OutputWith(Unwrap(t.revert_data).output, it)))]
    ELSE t

RECURSIVE TraceOf(_, _)
\* The trace of n phases that records the items of sequence s.
TraceOf(n, s) ==
    IF s = <<>> THEN CleanTrace(n)
    ELSE TraceWith(TraceOf(n, SubSeq(s, 1, Len(s) - 1)), s[Len(s)])

-----------------------------------------------------------------------------
(* Entity and Violation                                                    *)

\* A plausible slip: the first two arms are exchanged.
from_simulation_phase_exchanged(i) ==
    IF i = 0 THEN Some("Account")
    ELSE IF i = 1 THEN Some("Factory")
    ELSE IF i = 2 THEN Some("Paymaster")
    ELSE None

\* Entity::from_simulation_phase, on the 0-based phase index.  An index
\* that is none of 0, 1, 2 -- also the wrapped result of 0 - 1 -- gives None.
from_simulation_phase(i) ==
    IF i = 0 THEN Some("Factory")
    ELSE IF i = 1 THEN Some("Account")
    ELSE IF i = 2 THEN Some("Paymaster")
    ELSE None

\* The variants of Violation in declaration order, which derive(Ord) makes
\* the order of the type.
ViolationVariants ==
    <<"UnintendedRevertWithMessage", "UsedForbiddenOpcode", "InvalidGasOpcode",
      "FactoryCalledCreate2Twice", "InvalidStorageAccess", "NotStaked",
      "UnintendedRevert", "DidNotRevert", "WrongNumberOfPhases", "CallHadValue",
      "OutOfGas", "AccessedUndeployedContract", "CalledHandleOps",
      "CodeHashChanged", "AggregatorValidationFailed">>

\* A violation is a record of its variant and that variant's fields; the
\* fields a variant does not have keep the values given here.
Violation(kind) ==
    [kind |-> kind, entity |-> "-", opcode |-> "-", address |-> None,
     reason |-> "", num |-> 0, min_stake_value |-> 0, min_unstake_delay |-> 0]

UnintendedRevertWithMessage(entity, reason, entity_addr) ==
    [Violation("UnintendedRevertWithMessage") EXCEPT
        !.entity = entity, !.reason = reason, !.address = entity_addr]

UsedForbiddenOpcode(entity, opcode) ==
    [Violation("UsedForbiddenOpcode") EXCEPT !.entity = entity, !.opcode = opcode]

InvalidGasOpcode(entity) == [Violation("InvalidGasOpcode") EXCEPT !.entity = entity]

FactoryCalledCreate2Twice == Violation("FactoryCalledCreate2Twice")

InvalidStorageAccess(entity, address) ==
    [Violation("InvalidStorageAccess") EXCEPT
        !.entity = entity, !.address = Some(address)]

NotStaked(entity, address, min_stake, min_delay) ==
    [Violation("NotStaked") EXCEPT
        !.entity = entity, !.address = Some(address),
        !.min_stake_value = min_stake, !.min_unstake_delay = min_delay]

UnintendedRevert(entity) == [Violation("UnintendedRevert") EXCEPT !.entity = entity]

DidNotRevert == Violation("DidNotRevert")

WrongNumberOfPhases(n) == [Violation("WrongNumberOfPhases") EXCEPT !.num = n]

CallHadValue(entity) == [Violation("CallHadValue") EXCEPT !.entity = entity]

OutOfGas(entity) == [Violation("OutOfGas") EXCEPT !.entity = entity]

AccessedUndeployedContract(entity, address) ==
    [Violation("AccessedUndeployedContract") EXCEPT
        !.entity = entity, !.address = Some(address)]

CalledHandleOps(entity) == [Violation("CalledHandleOps") EXCEPT !.entity = entity]

CodeHashChanged == Violation("CodeHashChanged")

AggregatorValidationFailed == Violation("AggregatorValidationFailed")

-----------------------------------------------------------------------------
(* Stake predicate                                                         *)

\* A plausible slip: the stake must equal the minimum instead of reaching it.
is_staked_exact(info, sim_settings) ==
    /\ info.stake = sim_settings.min_stake_value
    /\ info.unstake_delay_sec >= sim_settings.min_unstake_delay

is_staked(info, sim_settings) ==
    /\ info.stake >= sim_settings.min_stake_value
    /\ info.unstake_delay_sec >= sim_settings.min_unstake_delay

-----------------------------------------------------------------------------
(* Storage-restriction classifier                                          *)

\* A plausible slip: the wallet-creation branch forgets the entry point.
get_storage_restriction_no_entry_point(args) ==
    IF args.accessed_address = args.sender_address
    THEN "Allowed"
    ELSE IF is_associated_slot(args.slots_by_address, args.sender_address, args.slot)
    THEN IF args.is_wallet_creation THEN "NeedsStake" ELSE "Allowed"
    ELSE IF \/ args.accessed_address = args.entity_address
            \/ is_associated_slot(args.slots_by_address, args.entity_address,
                                  args.slot)
    THEN "NeedsStake"
    ELSE "Banned"

\* A plausible slip: the entity's own storage is tested before the sender's
\* associated slots.
get_storage_restriction_entity_first(args) ==
    IF args.accessed_address = args.sender_address
    THEN "Allowed"
    ELSE IF \/ args.accessed_address = args.entity_address
            \/ is_associated_slot(args.slots_by_address, args.entity_address,
                                  args.slot)
    THEN "NeedsStake"
    ELSE IF is_associated_slot(args.slots_by_address, args.sender_address, args.slot)
    THEN IF args.is_wallet_creation
            /\ args.accessed_address # args.entry_point_address
         THEN "NeedsStake"
         ELSE "Allowed"
    ELSE "Banned"

\* A plausible slip: the wallet-creation branch applies to every operation.
get_storage_restriction_any_operation(args) ==
    IF args.accessed_address = args.sender_address
    THEN "Allowed"
    ELSE IF is_associated_slot(args.slots_by_address, args.sender_address, args.slot)
    THEN IF args.accessed_address # args.entry_point_address
         THEN "NeedsStake"
         ELSE "Allowed"
    ELSE IF \/ args.accessed_address = args.entity_address
            \/ is_associated_slot(args.slots_by_address, args.entity_address,
                                  args.slot)
    THEN "NeedsStake"
    ELSE "Banned"

get_storage_restriction(args) ==
    IF args.accessed_address = args.sender_address
    THEN "Allowed"
    ELSE IF is_associated_slot(args.slots_by_address, args.sender_address, args.slot)
    THEN IF args.is_wallet_creation
            /\ args.accessed_address # args.entry_point_address
         THEN "NeedsStake"
         ELSE "Allowed"
    ELSE IF \/ args.accessed_address = args.entity_address
            \/ is_associated_slot(args.slots_by_address, args.entity_address,
                                  args.slot)
    THEN "NeedsStake"
    ELSE "Banned"

-----------------------------------------------------------------------------
(* EntityInfos                                                             *)

EntityInfos_new(factory_address, sender_address, paymaster_address, entry_point_out, sim_settings) ==
    [factory |->
        IF IsSome(factory_address)
        THEN Some([address |-> Unwrap(factory_address),
                   is_staked |-> is_staked(entry_point_out.factory_info,
                                           sim_settings)])
        ELSE None,
     sender |->
        [address |-> sender_address,
         is_staked |-> is_staked(entry_point_out.sender_info, sim_settings)],
     paymaster |->
        IF IsSome(paymaster_address)
        THEN Some([address |-> Unwrap(paymaster_address),
                   is_staked |-> is_staked(entry_point_out.paymaster_info,
                                           sim_settings)])
        ELSE None]

\* A plausible slip: an undeclared entity is looked up as the sender.
EntityInfos_get_or_sender(infos, entity) ==
    IF entity = "Factory" /\ IsSome(infos.factory) THEN infos.factory
    ELSE IF entity = "Paymaster" /\ IsSome(infos.paymaster) THEN infos.paymaster
    ELSE Some(infos.sender)

EntityInfos_get(infos, entity) ==
    IF entity = "Factory" THEN infos.factory
    ELSE IF entity = "Account" THEN Some(infos.sender)
    ELSE IF entity = "Paymaster" THEN infos.paymaster
    ELSE None

-----------------------------------------------------------------------------
(* Context builder                                                         *)

Ok(x) == [tag |-> "Ok", value |-> Some(x), violation |-> None]

Err(v) == [tag |-> "Err", value |-> None, violation |-> Some(v)]

\* The task panics: unwrap() of None, or an arithmetic overflow check.
Panic == [tag |-> "Panic", value |-> None, violation |-> None]

\* A plausible slip: the revert is always pinned on the sender's address.
entity_addr_sender(last_entity, factory_address, sender_address, paymaster_address) ==
    Some(sender_address)

\* let entity_addr = match last_entity { ... }: the declared address of
\* the entity the revert is attributed to.
entity_addr(last_entity, factory_address, sender_address, paymaster_address) ==
    IF last_entity = "Factory" THEN factory_address
    ELSE IF last_entity = "Paymaster" THEN paymaster_address
    ELSE IF last_entity = "Account" THEN Some(sender_address)
    ELSE None

\* create_context, given the TracerOutput t the traced call returned.
\* With no phase, phases.len() - 1 underflows usize: a build with overflow
\* checks panics there, a build without them wraps to usize::MAX, for which
\* from_simulation_phase is None and unwrap() panics.  The model's -1 stands
\* for the wrapped index; both builds end in the same panic.
create_context(o, t) ==
    LET factory_address == factory(o)
        sender_address == o.sender
        paymaster_address == paymaster(o)
        is_wallet_creation == o.init_code # <<>>
        num_phases == Len(t.phases)
    IN
    IF num_phases > 3 THEN Err(WrongNumberOfPhases(num_phases))
    ELSE IF t.revert_data = None THEN Err(DidNotRevert)
    ELSE
    LET revert_data == Unwrap(t.revert_data)
        last == from_simulation_phase(num_phases - 1)
    IN
    IF last = None THEN Panic
    ELSE
    LET last_entity == Unwrap(last)
        failed_op == FailedOp_decode_hex(revert_data)
        decoded == ValidationOutput_decode_hex(revert_data)
    IN
    IF IsSome(failed_op)
    THEN Err(UnintendedRevertWithMessage(
                last_entity,
                Unwrap(failed_op).reason,
                entity_addr(last_entity, factory_address, sender_address,
                            paymaster_address)))
    ELSE IF decoded = None THEN Err(UnintendedRevert(last_entity))
    ELSE
    LET entry_point_out == Unwrap(decoded)
        entity_infos == EntityInfos_new(factory_address, sender_address,
                                        paymaster_address, entry_point_out,
                                        SimSettings)
    IN
    IF num_phases < 3 THEN Err(WrongNumberOfPhases(num_phases))
    ELSE Ok([entity_infos |-> entity_infos,
             tracer_out |-> t,
             entry_point_out |-> entry_point_out,
             is_wallet_creation |-> is_wallet_creation])

-----------------------------------------------------------------------------
(* Rule engine: the loop of simulate_validation over the phases            *)

\* A plausible slip: the banned addresses are kept in a Vec.
IndexSet_insert_push(set, x) == Append(set, x)

\* IndexSet::insert: at the end, unless already a member.
IndexSet_insert(set, x) ==
    IF \E i \in 1..Len(set) : set[i] = x THEN set ELSE Append(set, x)

\* A plausible slip: the paymaster's context is not looked at.
needs_stake_initially_never(entity, paymaster_context) == FALSE

\* let mut needs_stake = entity == Entity::Paymaster
\*     && !entry_point_out.return_info.paymaster_context.is_empty();
needs_stake_initially(entity, paymaster_context) ==
    entity = "Paymaster" /\ paymaster_context # <<>>

RECURSIVE SlotAccesses(_)
\* The (address, slot) pairs of a phase in the order the two nested loops
\* over storage_accesses and slots visit them.
SlotAccesses(accs) ==
    IF accs = <<>> THEN <<>>
    ELSE [i \in 1..Len(Head(accs).slots) |->
            [address |-> Head(accs).address, slot |-> Head(accs).slots[i]]]
         \o SlotAccesses(Tail(accs))

RECURSIVE ScanStorage(_, _, _)
\* The body of the slot loop, over the pairs left to visit: st holds
\* needs_stake and banned_addresses_accessed.
ScanStorage(base, pairs, st) ==
    IF pairs = <<>> THEN st
    ELSE
    LET restriction ==
            get_storage_restriction(
                [slots_by_address |-> base.slots_by_address,
                 is_wallet_creation |-> base.is_wallet_creation,
                 entry_point_address |-> base.entry_point_address,
                 entity_address |-> base.entity_address,
                 sender_address |-> base.sender_address,
                 accessed_address |-> Head(pairs).address,
                 slot |-> Head(pairs).slot])
        next ==
            IF restriction = "NeedsStake" THEN [st EXCEPT !.needs_stake = TRUE]
            ELSE IF restriction = "Banned"
            THEN [st EXCEPT !.banned_addresses_accessed =
                                IndexSet_insert(@, Head(pairs).address)]
            ELSE st
    IN ScanStorage(base, Tail(pairs), next)

\* One iteration of the phase loop: acc holds violations,
\* entities_needing_stake and accessed_addresses.
PhaseRules(ctx, index, acc) ==
    LET phase == ctx.tracer_out.phases[index + 1]
        entity == Unwrap(from_simulation_phase(index))
        found == EntityInfos_get(ctx.entity_infos, entity)
    IN
    IF found = None THEN acc
    ELSE
    LET entity_info == Unwrap(found)
        opcodes == [i \in 1..Len(phase.forbidden_opcodes_used) |->
                        UsedForbiddenOpcode(entity, phase.forbidden_opcodes_used[i])]
        gas == IF phase.used_invalid_gas_opcode
               THEN <<InvalidGasOpcode(entity)>> ELSE <<>>
        scanned ==
            ScanStorage(
                [slots_by_address |-> ctx.tracer_out.associated_slots_by_address,
                 is_wallet_creation |-> ctx.is_wallet_creation,
                 entry_point_address |-> ENTRY_POINT,
                 entity_address |-> entity_info.address,
                 sender_address |-> ctx.entity_infos.sender.address],
                SlotAccesses(phase.storage_accesses),
                [needs_stake |->
                    needs_stake_initially(
                        entity, ctx.entry_point_out.return_info.paymaster_context),
                 banned_addresses_accessed |-> <<>>])
        stake == IF scanned.needs_stake /\ ~entity_info.is_staked
                 THEN <<NotStaked(entity, entity_info.address,
                                  SimSettings.min_stake_value,
                                  SimSettings.min_unstake_delay)>>
                 ELSE <<>>
        banned == [i \in 1..Len(scanned.banned_addresses_accessed) |->
                      InvalidStorageAccess(entity,
                                           scanned.banned_addresses_accessed[i])]
        value == IF phase.called_with_value THEN <<CallHadValue(entity)>> ELSE <<>>
        oog == IF phase.ran_out_of_gas THEN <<OutOfGas(entity)>> ELSE <<>>
        undeployed ==
            [i \in 1..Len(phase.undeployed_contract_accesses) |->
                AccessedUndeployedContract(entity,
                                           phase.undeployed_contract_accesses[i])]
        handle == IF phase.called_handle_ops
                  THEN <<CalledHandleOps(entity)>> ELSE <<>>
    IN
    [violations |->
        acc.violations \o opcodes \o gas \o stake \o banned \o value \o oog
                       \o undeployed \o handle,
     entities_needing_stake |->
        IF scanned.needs_stake
        THEN Append(acc.entities_needing_stake, entity)
        ELSE acc.entities_needing_stake,
     accessed_addresses |->
        acc.accessed_addresses
        \cup {phase.storage_accesses[i].address :
                i \in 1..Len(phase.storage_accesses)}]

RECURSIVE PhaseLoop(_, _, _)
\* for (index, phase) in tracer_out.phases.iter().enumerate().take(3)
PhaseLoop(ctx, index, acc) ==
    IF index >= Len(ctx.tracer_out.phases) \/ index >= 3 THEN acc
    ELSE PhaseLoop(ctx, index + 1, PhaseRules(ctx, index, acc))

\* A plausible slip: the aggregator is listed only when it lacks stake.
AfterPhases_unstaked_only(ctx, acc) ==
    LET info == ctx.entry_point_out.aggregator_info
        unstaked == IsSome(info) /\ ~is_staked(Unwrap(info).stake_info, SimSettings)
    IN
    [violations |->
        acc.violations
        \o (IF unstaked
            THEN <<NotStaked("Aggregator", Unwrap(info).address,
                             SimSettings.min_stake_value,
                             SimSettings.min_unstake_delay)>>
            ELSE <<>>)
        \o (IF ctx.tracer_out.factory_called_create2_twice
            THEN <<FactoryCalledCreate2Twice>> ELSE <<>>),
     entities_needing_stake |->
        IF unstaked THEN Append(acc.entities_needing_stake, "Aggregator")
        ELSE acc.entities_needing_stake,
     accessed_addresses |-> acc.accessed_addresses]

\* The aggregator's stake check and the create2 check after the loop.
AfterPhases(ctx, acc) ==
    LET info == ctx.entry_point_out.aggregator_info
        needing == IF IsSome(info)
                   THEN Append(acc.entities_needing_stake, "Aggregator")
                   ELSE acc.entities_needing_stake
        stake == IF IsSome(info) /\ ~is_staked(Unwrap(info).stake_info, SimSettings)
                 THEN <<NotStaked("Aggregator", Unwrap(info).address,
                                  SimSettings.min_stake_value,
                                  SimSettings.min_unstake_delay)>>
                 ELSE <<>>
        create2 == IF ctx.tracer_out.factory_called_create2_twice
                   THEN <<FactoryCalledCreate2Twice>> ELSE <<>>
    IN
    [violations |-> acc.violations \o stake \o create2,
     entities_needing_stake |-> needing,
     accessed_addresses |-> acc.accessed_addresses]

\* simulate_validation from the context to the first checkpoint.
RuleEngine(ctx) ==
    AfterPhases(ctx,
                PhaseLoop(ctx, 0, [violations |-> <<>>,
                                   entities_needing_stake |-> <<>>,
                                   accessed_addresses |-> {}]))

-----------------------------------------------------------------------------
(* The node behind the provider                                            *)

BlockHashOf(n) == [number |-> n]

\* eth::get_block_hash: the hash of the block block_id names, the node's
\* latest block when the caller named none (BlockNumber::Latest).
get_block_hash(id) ==
    BlockHashOf(IF id = None THEN latest ELSE Unwrap(id))

\* eth::get_code_hash: a fingerprint of the code the listed addresses have
\* at the given block; distinct lists or blocks give distinct fingerprints.
get_code_hash(addresses, block) == [addresses |-> addresses, block |-> block]

\* The block an eth_call without a block parameter is evaluated at.
DefaultCallBlock == BlockHashOf(latest)

-----------------------------------------------------------------------------
(* Results of simulate_validation                                          *)

Returned(kind) == [kind |-> kind, violations |-> <<>>, success |-> None,
                   cause |-> ""]

\* Err(SimulationError::Violations(list))
Violations(list) == [Returned("Violations") EXCEPT !.violations = list]

\* Err(SimulationError::Other(cause))
Failure(cause) == [Returned("Other") EXCEPT !.cause = cause]

\* Ok(SimulationSuccess)
Success(s) == [Returned("Success") EXCEPT !.success = Some(s)]

\* The task panicked in create_context.
Panicked == Returned("Panic")

Task(state) == [state |-> state, hash |-> None, out |-> "-", sig |-> None]

RECURSIVE Flatten(_)
\* The loop over tracer_out.expected_storage.
Flatten(storage) ==
    IF storage = <<>> THEN <<>>
    ELSE [i \in 1..Len(Head(storage).slots) |->
            [address |-> Head(storage).address,
             slot |-> Head(storage).slots[i].slot,
             value |-> Head(storage).slots[i].value]]
         \o Flatten(Tail(storage))

\* A plausible slip: the first checkpoint is skipped.
RuleCheckpointSkipped(list) == FALSE

\* if !violations.is_empty() { return Err(violations.into()) }, before the
\* code-hash and aggregator work.
RuleCheckpoint(list) == list # <<>>

\* A plausible slip: the second checkpoint is skipped.
PostCheckpointSkipped(list) == FALSE

\* A plausible slip: the test of the second checkpoint is the wrong way round.
PostCheckpointInverted(list) == list = <<>>

\* if !violations.is_empty() { return Err(violations.into()) }, after it.
PostCheckpoint(list) == list # <<>>

\* A plausible slip: the block hash is read again when the result is built.
SuccessBlockHashLatest(pinned) == BlockHashOf(latest)

\* block_hash of SimulationSuccess.
SuccessBlockHash(pinned) == pinned

\* The ValidationContext simulate_validation destructured after
\* create_context: the variable tracer_out holds its tracer_out.
ValidationContext ==
    [entity_infos |-> Unwrap(context).entity_infos,
     tracer_out |-> Unwrap(tracer_out),
     entry_point_out |-> Unwrap(context).entry_point_out,
     is_wallet_creation |-> Unwrap(context).is_wallet_creation]

\* The SimulationSuccess assembled at the end of simulate_validation.
SimulationSuccess(code_hash, aggregator_signature) ==
    LET ctx == ValidationContext IN
    [block_hash |-> SuccessBlockHash(Unwrap(block_hash)),
     pre_op_gas |-> ctx.entry_point_out.return_info.pre_op_gas,
     signature_failed |-> ctx.entry_point_out.return_info.sig_failed,
     valid_time_range |-> <<ctx.entry_point_out.return_info.valid_after,
                            ctx.entry_point_out.return_info.valid_until>>,
     aggregator_address |->
        IF IsSome(ctx.entry_point_out.aggregator_info)
        THEN Some(Unwrap(ctx.entry_point_out.aggregator_info).address)
        ELSE None,
     aggregator_signature |-> aggregator_signature,
     code_hash |-> code_hash,
     entities_needing_stake |-> entities_needing_stake,
     account_is_staked |-> is_staked(ctx.entry_point_out.sender_info, SimSettings),
     accessed_addresses |-> accessed_addresses,
     expected_storage_slots |-> Flatten(ctx.tracer_out.expected_storage)]

-----------------------------------------------------------------------------
(* Initial states                                                          *)

BlockIds == {None, Some(0)}

\* The caller's expectation, if any, is the fingerprint of the sender's
\* code at block 0.
ExpectedCodeHashes == {None, Some(get_code_hash(<<SENDER>>, BlockHashOf(0)))}

NoUnit == [fn |-> "-"]

\* The per-call state before the call has done anything.
CallStart ==
    /\ pc = "start"
    /\ block_hash = None
    /\ tracer_out = None
    /\ context = None
    /\ violations = <<>>
    /\ entities_needing_stake = <<>>
    /\ accessed_addresses = {}
    /\ code_hash_task = Task("idle")
    /\ aggregator_task = Task("idle")
    /\ reads = <<>>
    /\ result = None

Init ==
    /\ op \in UserOperations
    /\ block_id \in BlockIds
    /\ expected_code_hash \in ExpectedCodeHashes
    /\ latest = 0
    /\ CallStart
    /\ run = 1
    /\ first = None
    /\ unit = NoUnit

callArgs == <<op, block_id, expected_code_hash>>

callVars == <<pc, block_hash, tracer_out, context, violations,
              entities_needing_stake, accessed_addresses, code_hash_task,
              aggregator_task, reads, result>>

-----------------------------------------------------------------------------
(* simulate_validation                                                     *)

\* The node produces a block between the traced call and the reads of
\* post-validation.  (The call reads the node's latest block only when it
\* pins and when the aggregator is called, so a block produced earlier in
\* the call shows nothing that one produced here does not.)
NodeAdvance ==
    /\ pc = "join"
    /\ latest < MaxBlock
    /\ latest' = latest + 1
    /\ UNCHANGED <<callArgs, callVars, run, first, unit>>

\* eth::get_block_hash(...).await? returns: the block hash is pinned.
PinBlock ==
    /\ pc = "start"
    /\ block_hash' = Some(get_block_hash(block_id))
    /\ pc' = "trace"
    /\ UNCHANGED <<callArgs, latest, tracer_out, context, violations,
                   entities_needing_stake, accessed_addresses, code_hash_task,
                   aggregator_task, reads, result, run, first, unit>>

\* eth::get_block_hash(...).await? fails: the error is returned.
PinBlockFails ==
    /\ pc = "start"
    /\ result' = Some(Failure("get_block_hash"))
    /\ pc' = "done"
    /\ UNCHANGED <<callArgs, latest, block_hash, tracer_out, context, violations,
                   entities_needing_stake, accessed_addresses, code_hash_task,
                   aggregator_task, reads, run, first, unit>>

\* A plausible slip: an absent expectation is compared like a present one.
code_hash_changed_unguarded(expected, code_hash) == expected # Some(code_hash)

\* if let Some(expected_code_hash) = expected_code_hash
\*     { if expected_code_hash != code_hash { ... } }
code_hash_changed(expected, code_hash) ==
    IsSome(expected) /\ Unwrap(expected) # code_hash

\* What the node may answer to validateUserOpSignature: the signature, a
\* JSON-RPC client error (the call reverted), or any other error.
AggregatorAnswers == {"signature", "JsonRpcClientError", "other error"}

\* A plausible slip: every error is taken for a failed validation.
validate_aggregator_signature_any_error(answer) ==
    IF answer = "signature"
    THEN [Task("ok") EXCEPT !.out = "SuccessWithSignature", !.sig = Some("sig")]
    ELSE [Task("ok") EXCEPT !.out = "ValidationFailed"]

\* validate_aggregator_signature with an aggregator address: the future's
\* outcome on the node's answer.
validate_aggregator_signature(answer) ==
    IF answer = "signature"
    THEN [Task("ok") EXCEPT !.out = "SuccessWithSignature", !.sig = Some("sig")]
    ELSE IF answer = "JsonRpcClientError"
    THEN [Task("ok") EXCEPT !.out = "ValidationFailed"]
    ELSE Task("err")

\* simulate_validation past tokio::try_join!, with both futures ready:
\* the post-validation violations are collected and the call returns.
AfterJoin(ch, ag) ==
    LET code_hash == Unwrap(ch.hash)
        changed == IF code_hash_changed(expected_code_hash, code_hash)
                   THEN Append(violations, CodeHashChanged)
                   ELSE violations
        all == IF ag.out = "ValidationFailed"
               THEN Append(changed, AggregatorValidationFailed)
               ELSE changed
    IN /\ code_hash_task' = ch
       /\ aggregator_task' = ag
       /\ violations' = all
       /\ result' = IF PostCheckpoint(all)
                    THEN Some(Violations(all))
                    ELSE Some(Success(SimulationSuccess(code_hash, ag.sig)))
       /\ pc' = "done"

\* A plausible slip: both futures are awaited to their end (join!) before
\* an error of either is looked at.
JoinAwaitsBoth(ch, ag) ==
    IF ch.state = "pending" \/ ag.state = "pending"
    THEN /\ code_hash_task' = ch
         /\ aggregator_task' = ag
         /\ UNCHANGED <<violations, result, pc>>
    ELSE IF ch.state = "err" \/ ag.state = "err"
    THEN /\ code_hash_task' = ch
         /\ aggregator_task' = ag
         /\ violations' = violations
         /\ result' = Some(Failure(IF ch.state = "err" THEN "get_code_hash"
                                   ELSE "validate_aggregator_signature"))
         /\ pc' = "done"
    ELSE AfterJoin(ch, ag)

\* The two futures of tokio::try_join! after one of them has moved to the
\* state given: the first error is returned and the other future dropped;
\* once both are ready the call goes on.
Join(ch, ag) ==
    IF ch.state = "err" \/ ag.state = "err"
    THEN /\ code_hash_task' = IF ch.state = "pending" THEN Task("cancelled") ELSE ch
         /\ aggregator_task' = IF ag.state = "pending" THEN Task("cancelled") ELSE ag
         /\ violations' = violations
         /\ result' = Some(Failure(IF ch.state = "err" THEN "get_code_hash"
                                   ELSE "validate_aggregator_signature"))
         /\ pc' = "done"
    ELSE IF ch.state = "ok" /\ ag.state = "ok"
    THEN AfterJoin(ch, ag)
    ELSE /\ code_hash_task' = ch
         /\ aggregator_task' = ag
         /\ UNCHANGED <<violations, result, pc>>

\* simulate_validation from the return of the traced call, with trace t, to
\* its next suspension point: create_context and the rule engine run
\* without suspending, up to the first checkpoint or the start of the two
\* post-validation futures.
Validate(t) ==
    /\ pc = "trace"
    /\ tracer_out' = Some(t)
    /\ reads' = Append(reads, [call |-> "simulateValidation",
                               block |-> Unwrap(block_hash),
                               answer |-> "-"])
    /\ \E made \in {create_context(op, t)} :
       IF made.tag # "Ok"
       THEN /\ result' = IF made.tag = "Panic" THEN Some(Panicked)
                         ELSE Some(Violations(<<Unwrap(made.violation)>>))
            /\ pc' = "done"
            /\ UNCHANGED <<context, violations, entities_needing_stake,
                           accessed_addresses, code_hash_task, aggregator_task>>
       ELSE
       \E ctx \in {Unwrap(made.value)} : \E rules \in {RuleEngine(ctx)} :
          /\ context' = Some([entity_infos |-> ctx.entity_infos,
                              entry_point_out |-> ctx.entry_point_out,
                              is_wallet_creation |-> ctx.is_wallet_creation])
          /\ violations' = rules.violations
          /\ entities_needing_stake' = rules.entities_needing_stake
          /\ accessed_addresses' = rules.accessed_addresses
          /\ IF RuleCheckpoint(rules.violations)
             THEN /\ result' = Some(Violations(rules.violations))
                  /\ pc' = "done"
                  /\ UNCHANGED <<code_hash_task, aggregator_task>>
             ELSE /\ result' = None
                  /\ pc' = "join"
                  /\ code_hash_task' = Task("pending")
                  /\ aggregator_task' =
                        IF IsSome(ctx.entry_point_out.aggregator_info)
                        THEN Task("pending")
                        ELSE [Task("ok") EXCEPT !.out = "NotNeeded"]
    /\ UNCHANGED <<callArgs, latest, block_hash, run, first, unit>>

\* tracer::trace_simulate_validation(...).await? returns some trace of at
\* most k items, its number of phases one of counts.
TraceReturns(k, counts) ==
    /\ pc = "trace"
    /\ run = 1
    /\ \E n \in counts, len \in 0..k : \E s \in [1..len -> ItemsOf(n)] :
          InRankOrder(s) /\ \E t \in {TraceOf(n, s)} : Validate(t)

TraceSimulateValidation == TraceReturns(MaxItems - 1, 0..MaxPhases)

\* tracer::trace_simulate_validation(...).await? fails: the error is returned.
TraceFails ==
    /\ pc = "trace"
    /\ result' = Some(Failure("trace_simulate_validation"))
    /\ pc' = "done"
    /\ UNCHANGED <<callArgs, latest, block_hash, tracer_out, context, violations,
                   entities_needing_stake, accessed_addresses, code_hash_task,
                   aggregator_task, reads, run, first, unit>>

\* eth::get_code_hash(provider, accessed_contract_addresses, Some(block_id))
\* completes with the fingerprint at the pinned block.
CodeHashReturns ==
    /\ pc = "join"
    /\ code_hash_task.state = "pending"
    /\ reads' = Append(reads, [call |-> "get_code_hash",
                               block |-> Unwrap(block_hash),
                               answer |-> "-"])
    /\ Join([Task("ok") EXCEPT !.hash =
                Some(get_code_hash(
                        Unwrap(tracer_out).accessed_contract_addresses,
                        Unwrap(block_hash)))],
            aggregator_task)
    /\ UNCHANGED <<callArgs, latest, block_hash, tracer_out, context,
                   entities_needing_stake, accessed_addresses, run, first, unit>>

\* eth::get_code_hash fails.
CodeHashFails ==
    /\ pc = "join"
    /\ code_hash_task.state = "pending"
    /\ Join(Task("err"), aggregator_task)
    /\ UNCHANGED <<callArgs, latest, block_hash, tracer_out, context,
                   entities_needing_stake, accessed_addresses, reads, run, first,
                   unit>>

\* aggregator.validate_user_op_signature(op).call() is answered by the node,
\* with the signature or with a JSON-RPC client error; the call names no
\* block, so the node evaluates it at its latest block.
AggregatorReturns ==
    /\ pc = "join"
    /\ aggregator_task.state = "pending"
    /\ \E answer \in {"signature", "JsonRpcClientError"} :
          /\ reads' = Append(reads, [call |-> "validateUserOpSignature",
                                     block |-> DefaultCallBlock,
                                     answer |-> answer])
          /\ Join(code_hash_task, validate_aggregator_signature(answer))
    /\ UNCHANGED <<callArgs, latest, block_hash, tracer_out, context,
                   entities_needing_stake, accessed_addresses, run, first, unit>>

\* The aggregator call fails with any other error.
AggregatorFails ==
    /\ pc = "join"
    /\ aggregator_task.state = "pending"
    /\ reads' = Append(reads, [call |-> "validateUserOpSignature",
                               block |-> DefaultCallBlock,
                               answer |-> "other error"])
    /\ Join(code_hash_task, validate_aggregator_signature("other error"))
    /\ UNCHANGED <<callArgs, latest, block_hash, tracer_out, context,
                   entities_needing_stake, accessed_addresses, run, first, unit>>

Next ==
    \/ NodeAdvance
    \/ PinBlock
    \/ PinBlockFails
    \/ TraceSimulateValidation
    \/ TraceFails
    \/ CodeHashReturns
    \/ CodeHashFails
    \/ AggregatorReturns
    \/ AggregatorFails

Spec == Init /\ [][Next]_vars

-----------------------------------------------------------------------------
(* The rule engine on richer traces                                        *)

\* The traced call returns some trace of at most MaxItems items.
\* The rule engine runs on the traces of three phases only.
TraceForRules == TraceReturns(MaxItems, {ValidationPhases})

InitRules ==
    /\ Init
    /\ block_id = None
    /\ expected_code_hash = None

NextRules ==
    \/ PinBlock
    \/ TraceForRules

\* A call up to the first checkpoint, over all traces of MaxItems items.
SpecRules == InitRules /\ [][NextRules]_vars

-----------------------------------------------------------------------------
(* A call and its repetition                                               *)

\* The caller repeats a finished call with the same arguments.
Repeat ==
    /\ pc = "done"
    /\ run = 1
    /\ run' = 2
    /\ first' = Some([block_hash |-> block_hash,
                      tracer_out |-> tracer_out,
                      code_hash_task |-> code_hash_task,
                      aggregator_task |-> aggregator_task,
                      result |-> Unwrap(result)])
    /\ pc' = "start"
    /\ block_hash' = None
    /\ tracer_out' = None
    /\ context' = None
    /\ violations' = <<>>
    /\ entities_needing_stake' = <<>>
    /\ accessed_addresses' = {}
    /\ code_hash_task' = Task("idle")
    /\ aggregator_task' = Task("idle")
    /\ reads' = <<>>
    /\ result' = None
    /\ UNCHANGED <<callArgs, latest, unit>>

\* The traced call of the repetition returns the trace of the first call.
TraceRepeated ==
    /\ pc = "trace"
    /\ run = 2
    /\ IsSome(Unwrap(first).tracer_out)
    /\ Validate(Unwrap(Unwrap(first).tracer_out))

NextRepeat ==
    \/ Next
    \/ Repeat
    \/ TraceRepeated

SpecRepeat == Init /\ [][NextRepeat]_vars

-----------------------------------------------------------------------------
(* The pure functions on their own                                         *)

\* Inputs of get_storage_restriction: three addresses in every role, and
\* every association of two slots with them.
ClassifierArgs ==
    [slots_by_address : [{SENDER, FACTORY, ENTRY_POINT} -> SUBSET {"k1", "k2"}],
     is_wallet_creation : BOOLEAN,
     entry_point_address : {SENDER, FACTORY, ENTRY_POINT},
     entity_address : {SENDER, FACTORY, ENTRY_POINT},
     sender_address : {SENDER, FACTORY, ENTRY_POINT},
     accessed_address : {SENDER, FACTORY, ENTRY_POINT},
     slot : {"k1", "k2"}]

\* Inputs of is_staked: two stake records and the settings.
StakeArgs ==
    [info : [stake : 0..MaxStake, unstake_delay_sec : 0..MaxStake],
     more : [stake : 0..MaxStake, unstake_delay_sec : 0..MaxStake],
     sim_settings : [min_unstake_delay : 0..MaxStake, min_stake_value : 0..MaxStake]]

\* No call is in progress.
NoCall ==
    /\ op = [sender |-> SENDER, init_code |-> <<>>, paymaster_and_data |-> <<>>]
    /\ block_id = None
    /\ expected_code_hash = None
    /\ latest = 0
    /\ CallStart
    /\ run = 1
    /\ first = None

InitPure ==
    /\ NoCall
    /\ \/ \E args \in ClassifierArgs :
             unit = [fn |-> "get_storage_restriction", args |-> args, out |-> None]
       \/ \E args \in StakeArgs :
             unit = [fn |-> "is_staked", args |-> args, out |-> None]

\* get_storage_restriction is applied to the arguments drawn.
Classify ==
    /\ unit.fn = "get_storage_restriction"
    /\ unit.out = None
    /\ unit' = [unit EXCEPT !.out = Some(get_storage_restriction(unit.args))]
    /\ UNCHANGED <<callArgs, latest, callVars, run, first>>

\* is_staked is applied to both stake records drawn.
CheckStake ==
    /\ unit.fn = "is_staked"
    /\ unit.out = None
    /\ unit' = [unit EXCEPT !.out =
                   Some([info |-> is_staked(unit.args.info, unit.args.sim_settings),
                         more |-> is_staked(unit.args.more, unit.args.sim_settings)])]
    /\ UNCHANGED <<callArgs, latest, callVars, run, first>>

NextPure ==
    \/ Classify
    \/ CheckStake

SpecPure == InitPure /\ [][NextPure]_vars

-----------------------------------------------------------------------------
(* simulate_handle_op                                                      *)

\* gas_used values a phase of the handleOps trace may report.
GasValues == {21, 35}

\* pre_op_gas values an ExecutionResult may carry: none is a GasValues.
PreOpGasValues == {7, 9}

\* account_revert_data of a phase, in hex: absent, an encoded
\* Error("not owner"), or the encoding of an error of another type.
AccountReverts == {None, Some("0x08c379a0:not owner"), Some("0x4e487b71")}

\* The phases of the trace past the first two report nothing that
\* simulate_handle_op reads.
QuietPhase == [gas_used |-> 21, account_revert_data |-> None]

\* The phase lists trace_simulate_handle_op may return.
HandleOpPhases ==
    UNION {{p \in [1..n -> [gas_used : GasValues,
                            account_revert_data : AccountReverts]] :
               \A i \in 1..n :
                   /\ i # 2 => p[i].account_revert_data = None
                   /\ i > 2 => p[i] = QuietPhase} : n \in 0..MaxPhases}

\* revert_data of the handleOps trace: absent, an ExecutionResult, another
\* error of the entry point, or bytes that are no entry-point error.
HandleOpReverts ==
    {None}
    \cup {Some([selector |-> "ExecutionResult", pre_op_gas |-> g]) :
             g \in PreOpGasValues}
    \cup {Some([selector |-> sel, pre_op_gas |-> 0]) :
             sel \in {"FailedOp", "ValidationResult", "Panic"}}

\* EntryPointErrors::decode_hex: Ok on the selectors of the entry point.
EntryPointErrors_decode_hex(rd) ==
    IF rd.selector \in {"ExecutionResult", "FailedOp", "ValidationResult"}
    THEN Some(rd) ELSE None

\* ContractRevertError::decode_hex: Ok exactly on Error(string).
ContractRevertError_decode_hex(rd) ==
    IF rd = "0x08c379a0:not owner" THEN Some([reason |-> "not owner"]) ELSE None

\* Result<GasSimulationSuccess, GasSimulationError> as one record.
GasReturned(kind) ==
    [kind |-> kind, success |-> None, ep_error |-> "", num |-> 0, reason |-> None]

\* A plausible slip: verification gas taken from the ExecutionResult.
GasSimulationSuccess_pre_op_gas(t) ==
    [call_gas |-> t.phases[2].gas_used,
     verification_gas |-> Unwrap(t.revert_data).pre_op_gas]

\* GasSimulationSuccess { call_gas, verification_gas }
GasSimulationSuccess(t) ==
    [call_gas |-> t.phases[2].gas_used,
     verification_gas |-> t.phases[1].gas_used]

\* A plausible slip: the phases are counted before the revert is decoded.
handle_op_checks_count_first(t) ==
    IF Len(t.phases) # 3
    THEN [GasReturned("IncorrectPhaseCount") EXCEPT !.num = Len(t.phases)]
    ELSE IF t.revert_data = None THEN GasReturned("DidNotRevert")
    ELSE IF EntryPointErrors_decode_hex(Unwrap(t.revert_data)) = None
    THEN GasReturned("Other")
    ELSE IF Unwrap(t.revert_data).selector # "ExecutionResult"
    THEN [GasReturned("DidNotRevertWithExecutionResult")
             EXCEPT !.ep_error = Unwrap(t.revert_data).selector]
    ELSE IF IsSome(t.phases[2].account_revert_data)
    THEN [GasReturned("AccountExecutionReverted")
             EXCEPT !.reason = Some("reverted")]
    ELSE [GasReturned("Success") EXCEPT !.success = Some(GasSimulationSuccess(t))]

\* simulate_handle_op from the trace to its return.
handle_op_checks(t) ==
    IF t.revert_data = None THEN GasReturned("DidNotRevert")
    ELSE
    LET ep_error == EntryPointErrors_decode_hex(Unwrap(t.revert_data)) IN
    IF ep_error = None THEN GasReturned("Other")
    ELSE IF Unwrap(ep_error).selector # "ExecutionResult"
    THEN [GasReturned("DidNotRevertWithExecutionResult")
             EXCEPT !.ep_error = Unwrap(ep_error).selector]
    ELSE IF Len(t.phases) # 3
    THEN [GasReturned("IncorrectPhaseCount") EXCEPT !.num = Len(t.phases)]
    ELSE IF IsSome(t.phases[2].account_revert_data)
    THEN LET inner_revert == Unwrap(t.phases[2].account_revert_data)
             error == ContractRevertError_decode_hex(inner_revert)
         IN [GasReturned("AccountExecutionReverted") EXCEPT !.reason =
                IF IsSome(error) THEN Some(Unwrap(error).reason)
                ELSE Some(inner_revert)]
    ELSE [GasReturned("Success") EXCEPT !.success = Some(GasSimulationSuccess(t))]

HandleOpCall == [fn |-> "simulate_handle_op"]

InitHandleOp ==
    /\ op \in UserOperations
    /\ block_id \in BlockIds
    /\ expected_code_hash = None
    /\ latest \in 0..MaxBlock
    /\ CallStart
    /\ run = 1
    /\ first = None
    /\ unit = HandleOpCall

\* eth::get_block_hash(...).await? returns: the block hash is pinned.
HandleOpPinBlock ==
    /\ unit = HandleOpCall
    /\ pc = "start"
    /\ block_hash' = Some(get_block_hash(block_id))
    /\ pc' = "trace"
    /\ UNCHANGED <<callArgs, latest, tracer_out, context, violations,
                   entities_needing_stake, accessed_addresses, code_hash_task,
                   aggregator_task, reads, result, run, first, unit>>

\* eth::get_block_hash(...).await? fails: GasSimulationError::Other.
HandleOpPinBlockFails ==
    /\ unit = HandleOpCall
    /\ pc = "start"
    /\ result' = Some(GasReturned("Other"))
    /\ pc' = "done"
    /\ UNCHANGED <<callArgs, latest, block_hash, tracer_out, context, violations,
                   entities_needing_stake, accessed_addresses, code_hash_task,
                   aggregator_task, reads, run, first, unit>>

\* trace_simulate_handle_op returns a trace and the call runs to its return.
TraceSimulateHandleOp ==
    /\ unit = HandleOpCall
    /\ pc = "trace"
    /\ \E phases \in HandleOpPhases, revert_data \in HandleOpReverts :
          LET t == [phases |-> phases, revert_data |-> revert_data] IN
          /\ tracer_out' = Some(t)
          /\ result' = Some(handle_op_checks(t))
    /\ reads' = Append(reads, [call |-> "simulateHandleOp",
                               block |-> Unwrap(block_hash),
                               answer |-> "-"])
    /\ pc' = "done"
    /\ UNCHANGED <<callArgs, latest, block_hash, context, violations,
                   entities_needing_stake, accessed_addresses, code_hash_task,
                   aggregator_task, run, first, unit>>

\* trace_simulate_handle_op(...).await? fails: GasSimulationError::Other.
TraceSimulateHandleOpFails ==
    /\ unit = HandleOpCall
    /\ pc = "trace"
    /\ result' = Some(GasReturned("Other"))
    /\ pc' = "done"
    /\ UNCHANGED <<callArgs, latest, block_hash, tracer_out, context, violations,
                   entities_needing_stake, accessed_addresses, code_hash_task,
                   aggregator_task, reads, run, first, unit>>

NextHandleOp ==
    \/ HandleOpPinBlock
    \/ HandleOpPinBlockFails
    \/ TraceSimulateHandleOp
    \/ TraceSimulateHandleOpFails

SpecHandleOp == InitHandleOp /\ [][NextHandleOp]_vars

-----------------------------------------------------------------------------
(* Vocabulary of the properties                                            *)

Done == pc = "done"

ReturnedKind(kind) == Done /\ IsSome(result) /\ Unwrap(result).kind = kind

\* The traced call has returned a trace to this call.
Traced == IsSome(tracer_out)

\* create_context returned a context: the rule engine has run.
RulesRan == IsSome(context)

\* Position of a violation's variant in the declaration of Violation.
VariantIndex(v) ==
    CHOOSE i \in 1..Len(ViolationVariants) : ViolationVariants[i] = v.kind

\* Index of the phase a violation is attributed to; 3 for those of no phase.
PhaseIndex(v) ==
    IF v.entity = "Factory" THEN 0
    ELSE IF v.entity = "Account" THEN 1
    ELSE IF v.entity = "Paymaster" THEN 2
    ELSE 3

SortedByDeclaration(list) ==
    \A i, j \in 1..Len(list) :
        i < j => \/ VariantIndex(list[i]) < VariantIndex(list[j])
                 \/ /\ VariantIndex(list[i]) = VariantIndex(list[j])
                    /\ PhaseIndex(list[i]) <= PhaseIndex(list[j])

PostValidationReads == {"get_code_hash", "validateUserOpSignature"}

-----------------------------------------------------------------------------
(* C1 *)

\* C1: the violation list returned in SimulationError::Violations is sorted
\* by the declaration order of the variants, then by phase index.  The code
\* returns the list in the order the violations were pushed, phase by phase.
C1_ViolationsSorted ==
    ReturnedKind("Violations") => SortedByDeclaration(Unwrap(result).violations)

-----------------------------------------------------------------------------
(* C2 *)

\* C2: when the rule engine recorded a violation, the call has returned
\* exactly the rule engine's violations, and neither the code-hash
\* retrieval nor the aggregator call was ever issued or served.
C2_ShortCircuit ==
    (RulesRan /\ RuleEngine(ValidationContext).violations # <<>>) =>
        /\ Done
        /\ result = Some(Violations(RuleEngine(ValidationContext).violations))
        /\ code_hash_task.state = "idle"
        /\ aggregator_task.state = "idle"
        /\ \A i \in 1..Len(reads) : reads[i].call \notin PostValidationReads

\* A call returned the violations of the rule engine, of an operation that
\* names an aggregator, without any post-validation read.
C2_Witness ==
    /\ RulesRan
    /\ ReturnedKind("Violations")
    /\ Len(violations) >= 1
    /\ IsSome(Unwrap(context).entry_point_out.aggregator_info)
    /\ aggregator_task.state = "idle"

-----------------------------------------------------------------------------
(* C3 *)

\* C3: every on-chain read served after the block hash is pinned is
\* evaluated at the pinned block, which is the block_hash of the
\* SimulationSuccess.  The aggregator call names no block, so the node
\* evaluates it at its latest block.
C3_BlockConsistency ==
    /\ \A i \in 1..Len(reads) : reads[i].block = Unwrap(block_hash)
    /\ ReturnedKind("Success") =>
          Unwrap(Unwrap(result).success).block_hash = Unwrap(block_hash)

-----------------------------------------------------------------------------
(* C4 *)

\* C4: for P in {0, 1, 2} phases and revert data that is present, is no
\* FailedOp and decodes as ValidationOutput, the call returns the violation
\* WrongNumberOfPhases(P).  With P = 0 the code panics instead.
C4_TooFewPhases ==
    (/\ Traced
     /\ Len(Unwrap(tracer_out).phases) \in {0, 1, 2}
     /\ IsSome(Unwrap(tracer_out).revert_data)
     /\ FailedOp_decode_hex(Unwrap(Unwrap(tracer_out).revert_data)) = None
     /\ IsSome(ValidationOutput_decode_hex(Unwrap(Unwrap(tracer_out).revert_data))))
    => result = Some(Violations(
                        <<WrongNumberOfPhases(Len(Unwrap(tracer_out).phases))>>))

-----------------------------------------------------------------------------
(* C5 *)

\* The violation the precedence of C5 selects for a trace, None if none.
C5_Selected(t) ==
    LET P == Len(t.phases) IN
    IF P > 3 THEN Some("WrongNumberOfPhases")
    ELSE IF t.revert_data = None THEN Some("DidNotRevert")
    ELSE IF IsSome(FailedOp_decode_hex(Unwrap(t.revert_data)))
    THEN Some("UnintendedRevertWithMessage")
    ELSE IF ValidationOutput_decode_hex(Unwrap(t.revert_data)) = None
    THEN Some("UnintendedRevert")
    ELSE IF P < 3 THEN Some("WrongNumberOfPhases")
    ELSE None

\* C5: the context builder reports the first failing check of: more than 3
\* phases, no revert data, revert is a FailedOp, revert is no
\* ValidationOutput, fewer than 3 phases.  With no phase and revert data
\* present the code panics before it reaches the decoding checks.
C5_Precedence ==
    (Traced /\ IsSome(C5_Selected(Unwrap(tracer_out)))) =>
        /\ ReturnedKind("Violations")
        /\ Len(Unwrap(result).violations) = 1
        /\ Unwrap(result).violations[1].kind = Unwrap(C5_Selected(Unwrap(tracer_out)))
        /\ Unwrap(result).violations[1].kind = "WrongNumberOfPhases" =>
              Unwrap(result).violations[1].num = Len(Unwrap(tracer_out).phases)

-----------------------------------------------------------------------------
(* C6 *)

\* C6: a SimulationSuccess is returned only when no violation was recorded,
\* by the rule engine or by post-validation; a call that recorded a
\* violation has returned SimulationError::Violations.
C6_SuccessOnlyWithoutViolations ==
    /\ ReturnedKind("Success") =>
          /\ violations = <<>>
          /\ RuleEngine(ValidationContext).violations = <<>>
    /\ (Done /\ violations # <<>>) =>
          /\ ReturnedKind("Violations")
          /\ Unwrap(result).violations = violations

\* A call that compared the code hash against the caller's and asked the
\* aggregator returned a SimulationSuccess.
C6_Witness ==
    /\ ReturnedKind("Success")
    /\ IsSome(expected_code_hash)
    /\ aggregator_task.out = "SuccessWithSignature"

-----------------------------------------------------------------------------
(* C7 *)

\* The decision table of the classifier over the six conditions, first
\* matching row first.
C7_Table(sender_accessed, sender_slot, wallet_creation, entry_point_accessed,
         entity_accessed, entity_slot) ==
    CASE sender_accessed -> "Allowed"
      [] ~sender_accessed /\ sender_slot
            /\ wallet_creation /\ ~entry_point_accessed -> "NeedsStake"
      [] ~sender_accessed /\ sender_slot
            /\ ~(wallet_creation /\ ~entry_point_accessed) -> "Allowed"
      [] ~sender_accessed /\ ~sender_slot
            /\ (entity_accessed \/ entity_slot) -> "NeedsStake"
      [] ~sender_accessed /\ ~sender_slot
            /\ ~entity_accessed /\ ~entity_slot -> "Banned"

\* C7: get_storage_restriction returns what the four-row decision table
\* gives, one of Allowed, NeedsStake and Banned, and Allowed whenever the
\* accessed address is the sender.
C7_DecisionTable ==
    (unit.fn = "get_storage_restriction" /\ IsSome(unit.out)) =>
        LET a == unit.args IN
        /\ Unwrap(unit.out) =
              C7_Table(a.accessed_address = a.sender_address,
                       a.slot \in a.slots_by_address[a.sender_address],
                       a.is_wallet_creation,
                       a.accessed_address = a.entry_point_address,
                       a.accessed_address = a.entity_address,
                       a.slot \in a.slots_by_address[a.entity_address])
        /\ Unwrap(unit.out) \in {"Allowed", "NeedsStake", "Banned"}
        /\ a.accessed_address = a.sender_address => Unwrap(unit.out) = "Allowed"

\* The classifier allowed an access to the sender's own storage, at a slot
\* that is associated with the entity only, of an entity other than the
\* sender, during wallet creation.
C7_Witness ==
    /\ unit.fn = "get_storage_restriction"
    /\ unit.out = Some("Allowed")
    /\ unit.args.accessed_address = unit.args.sender_address
    /\ unit.args.entity_address # unit.args.sender_address
    /\ unit.args.is_wallet_creation
    /\ unit.args.slot \notin unit.args.slots_by_address[unit.args.sender_address]
    /\ unit.args.slot \in unit.args.slots_by_address[unit.args.entity_address]

-----------------------------------------------------------------------------
(* C8 *)

\* The arguments the slot loop hands to the classifier for an access of the
\* phase of the given index.
C8_Args(ctx, entity_address, access) ==
    [slots_by_address |-> ctx.tracer_out.associated_slots_by_address,
     is_wallet_creation |-> ctx.is_wallet_creation,
     entry_point_address |-> ENTRY_POINT,
     entity_address |-> entity_address,
     sender_address |-> ctx.entity_infos.sender.address,
     accessed_address |-> access.address,
     slot |-> access.slot]

\* The accesses of the account phase, empty if the trace has no such phase.
C8_AccountAccesses(ctx) ==
    IF Len(ctx.tracer_out.phases) >= 2
    THEN SlotAccesses(ctx.tracer_out.phases[2].storage_accesses)
    ELSE <<>>

\* The account phase touches only the sender's own storage and the slots
\* associated with the sender on the entry point.
C8_OwnOrEntryPoint(ctx) ==
    \A i \in 1..Len(C8_AccountAccesses(ctx)) :
        LET access == C8_AccountAccesses(ctx)[i] IN
        \/ access.address = ctx.entity_infos.sender.address
        \/ /\ access.address = ENTRY_POINT
           /\ access.slot \in
                 ctx.tracer_out.associated_slots_by_address[
                     ctx.entity_infos.sender.address]

\* C8: for an access to a slot associated with the sender on an address
\* other than the sender, the classifier returns NeedsStake when the
\* operation creates the wallet and the address is not the entry point,
\* and Allowed otherwise.  Hence an unstaked sender that, during wallet
\* creation, touches only its own storage and its associated slots on the
\* entry point gets no NotStaked(Account) violation and is not listed as
\* needing stake.
C8_WalletCreationException ==
    RulesRan =>
        LET ctx == ValidationContext
            sender == ctx.entity_infos.sender.address
        IN
        /\ \A index \in 0..2 :
              (/\ index < Len(ctx.tracer_out.phases)
               /\ IsSome(EntityInfos_get(ctx.entity_infos,
                                         Unwrap(from_simulation_phase(index)))))
              =>
              LET entity_address ==
                      Unwrap(EntityInfos_get(ctx.entity_infos,
                                 Unwrap(from_simulation_phase(index)))).address
                  accesses ==
                      SlotAccesses(ctx.tracer_out.phases[index + 1].storage_accesses)
              IN
              \A i \in 1..Len(accesses) :
                  (/\ accesses[i].address # sender
                   /\ accesses[i].slot \in
                         ctx.tracer_out.associated_slots_by_address[sender])
                  =>
                  get_storage_restriction(C8_Args(ctx, entity_address, accesses[i]))
                     = IF ctx.is_wallet_creation /\ accesses[i].address # ENTRY_POINT
                       THEN "NeedsStake"
                       ELSE "Allowed"
        /\ (/\ ctx.is_wallet_creation
            /\ ~ctx.entity_infos.sender.is_staked
            /\ C8_OwnOrEntryPoint(ctx))
           =>
           /\ \A i \in 1..Len(violations) :
                 ~(violations[i].kind = "NotStaked" /\ violations[i].entity = "Account")
           /\ \A i \in 1..Len(entities_needing_stake) :
                 entities_needing_stake[i] # "Account"

\* An unstaked sender touched, during wallet creation, a slot associated
\* with it on the entry point in its own phase, and the rule engine
\* recorded no violation.
C8_Witness ==
    /\ RulesRan
    /\ Unwrap(context).is_wallet_creation
    /\ ~Unwrap(context).entity_infos.sender.is_staked
    /\ C8_OwnOrEntryPoint(ValidationContext)
    /\ \E i \in 1..Len(C8_AccountAccesses(ValidationContext)) :
          C8_AccountAccesses(ValidationContext)[i].address = ENTRY_POINT
    /\ violations = <<>>
    /\ pc = "join"

-----------------------------------------------------------------------------
(* C9 *)

\* C9: is_staked is true exactly when the stake reaches min_stake_value and
\* the unstake delay reaches min_unstake_delay; if it is true of a stake
\* record, it is true of every record with no less stake and no less delay.
C9_StakeMonotonic ==
    (unit.fn = "is_staked" /\ IsSome(unit.out)) =>
        LET a == unit.args
            out == Unwrap(unit.out)
        IN
        /\ out.info <=> /\ a.info.stake >= a.sim_settings.min_stake_value
                        /\ a.info.unstake_delay_sec >= a.sim_settings.min_unstake_delay
        /\ (/\ out.info
            /\ a.more.stake >= a.info.stake
            /\ a.more.unstake_delay_sec >= a.info.unstake_delay_sec)
           => out.more

\* is_staked was true of a stake record and of one with more stake and a
\* longer delay.
C9_Witness ==
    /\ unit.fn = "is_staked"
    /\ IsSome(unit.out)
    /\ Unwrap(unit.out).info
    /\ Unwrap(unit.out).more
    /\ unit.args.more.stake > unit.args.info.stake
    /\ unit.args.more.unstake_delay_sec > unit.args.info.unstake_delay_sec

-----------------------------------------------------------------------------
(* C10 *)

\* Both calls have returned a SimulationSuccess or a violation list, the
\* second one on the trace of the first.
C10_BothReturned ==
    /\ run = 2
    /\ IsSome(first)
    /\ Traced
    /\ tracer_out = Unwrap(first).tracer_out
    /\ \/ ReturnedKind("Success")
       \/ ReturnedKind("Violations")
    /\ Unwrap(first).result.kind \in {"Success", "Violations"}

\* The node gave both calls the same answers: the same pinned block hash
\* and the same answer of the aggregator.
C10_SameAnswers ==
    /\ block_hash = Unwrap(first).block_hash
    /\ aggregator_task.out = Unwrap(first).aggregator_task.out
    /\ aggregator_task.sig = Unwrap(first).aggregator_task.sig

-----------------------------------------------------------------------------
(* C11 *)

\* simulate_handle_op has returned on a trace.
HandleOpReturned == unit = HandleOpCall /\ Done /\ Traced

\* The outcome the precedence of C11 selects for a trace of handleOps.
C11_Selected(t) ==
    IF t.revert_data = None THEN "DidNotRevert"
    ELSE IF EntryPointErrors_decode_hex(Unwrap(t.revert_data)) = None THEN "Other"
    ELSE IF Unwrap(t.revert_data).selector # "ExecutionResult"
    THEN "DidNotRevertWithExecutionResult"
    ELSE IF Len(t.phases) # 3 THEN "IncorrectPhaseCount"
    ELSE IF IsSome(t.phases[2].account_revert_data) THEN "AccountExecutionReverted"
    ELSE "Success"

\* C11: simulate_handle_op returns the first failure of: no revert data,
\* revert data that is no entry-point error, an entry-point error other
\* than ExecutionResult, a phase count other than 3, revert data of the
\* account's execution; it returns success only when none fails, and never
\* a violation list.
C11_HandleOpPrecedence ==
    /\ HandleOpReturned =>
          /\ Unwrap(result).kind = C11_Selected(Unwrap(tracer_out))
          /\ Unwrap(result).kind = "IncorrectPhaseCount" =>
                Unwrap(result).num = Len(Unwrap(tracer_out).phases)
          /\ IsSome(Unwrap(result).success) <=> Unwrap(result).kind = "Success"
    /\ (unit = HandleOpCall /\ Done) =>
          /\ Unwrap(result).kind \in
                {"Success", "DidNotRevert", "DidNotRevertWithExecutionResult",
                 "AccountExecutionReverted", "IncorrectPhaseCount", "Other"}
          /\ violations = <<>>
          /\ ~Traced => Unwrap(result).kind = "Other"

\* A trace of two phases that reverted with a FailedOp was reported as
\* DidNotRevertWithExecutionResult, not as an incorrect phase count.
C11_Witness ==
    /\ HandleOpReturned
    /\ Len(Unwrap(tracer_out).phases) = 2
    /\ Unwrap(tracer_out).revert_data # None
    /\ Unwrap(Unwrap(tracer_out).revert_data).selector = "FailedOp"
    /\ Unwrap(result).kind = "DidNotRevertWithExecutionResult"
    /\ Unwrap(result).ep_error = "FailedOp"

-----------------------------------------------------------------------------
(* C12 *)

\* C12: on a trace of 3 phases that reverted with an ExecutionResult and
\* has no revert data of the account's execution, simulate_handle_op
\* returns call_gas = phases[1].gas_used and verification_gas =
\* phases[0].gas_used, whatever pre_op_gas the ExecutionResult carries.
C12_GasFromTrace ==
    (/\ HandleOpReturned
     /\ Len(Unwrap(tracer_out).phases) = 3
     /\ Unwrap(tracer_out).revert_data # None
     /\ Unwrap(Unwrap(tracer_out).revert_data).selector = "ExecutionResult"
     /\ Unwrap(tracer_out).phases[2].account_revert_data = None)
    => /\ Unwrap(result).kind = "Success"
       /\ Unwrap(result).success =
             Some([call_gas |-> Unwrap(tracer_out).phases[2].gas_used,
                   verification_gas |-> Unwrap(tracer_out).phases[1].gas_used])

\* simulate_handle_op succeeded on a trace whose first two phases used
\* different amounts of gas.
C12_Witness ==
    /\ HandleOpReturned
    /\ Unwrap(result).kind = "Success"
    /\ Unwrap(Unwrap(result).success).call_gas = 35
    /\ Unwrap(Unwrap(result).success).verification_gas = 21
    /\ Unwrap(Unwrap(tracer_out).revert_data).pre_op_gas = 9

-----------------------------------------------------------------------------
(* C13 *)

\* The call returned a violation list that holds v.
Reported(v) ==
    /\ ReturnedKind("Violations")
    /\ \E i \in 1..Len(Unwrap(result).violations) : Unwrap(result).violations[i] = v

\* The rule engine ran and recorded no violation.
CleanPass == RulesRan /\ RuleEngine(ValidationContext).violations = <<>>

\* The hash over accessed_contract_addresses at the pinned block.
C13_Computed ==
    get_code_hash(Unwrap(tracer_out).accessed_contract_addresses, Unwrap(block_hash))

\* The caller supplied an expected hash and it differs from the computed.
C13_Mismatch ==
    IsSome(expected_code_hash) /\ Unwrap(expected_code_hash) # C13_Computed

\* C13: after a rule-engine pass with no violations, a call that returns
\* (and not with a fatal error of a post-validation task) reports
\* CodeHashChanged if and only if the caller supplied an expected hash that
\* differs from the hash computed over accessed_contract_addresses at the
\* pinned block; if the aggregator's validation did not fail as well, the
\* result is exactly Violations([CodeHashChanged]); with no expected hash
\* the computed hash causes no failure.
C13_CodeHashChanged ==
    (CleanPass /\ Done) =>
        /\ Reported(CodeHashChanged) => C13_Mismatch
        /\ Unwrap(result).kind # "Other" =>
              /\ code_hash_task.hash = Some(C13_Computed)
              /\ C13_Mismatch => Reported(CodeHashChanged)
              /\ (C13_Mismatch /\ aggregator_task.out # "ValidationFailed") =>
                    result = Some(Violations(<<CodeHashChanged>>))
              /\ (expected_code_hash = None
                  /\ aggregator_task.out # "ValidationFailed") =>
                    /\ ReturnedKind("Success")
                    /\ Unwrap(Unwrap(result).success).code_hash = C13_Computed

\* The caller's expected hash differed from the computed one and the call
\* returned exactly Violations([CodeHashChanged]).
C13_Witness ==
    /\ CleanPass
    /\ C13_Mismatch
    /\ code_hash_task.hash = Some(C13_Computed)
    /\ result = Some(Violations(<<CodeHashChanged>>))

-----------------------------------------------------------------------------
(* C14 *)

\* The node answered the aggregator call of this call with the answer.
C14_Answered(answer) ==
    \E i \in 1..Len(reads) :
        reads[i].call = "validateUserOpSignature" /\ reads[i].answer = answer

\* C14: without an aggregator address no aggregator call is made and
\* aggregator_signature is None; a signature the call returns becomes
\* SimulationSuccess.aggregator_signature; a JSON-RPC client error makes a
\* call that returns (and not with a fatal error of the code-hash task)
\* report AggregatorValidationFailed in Violations; any other error makes
\* the call return SimulationError::Other and never a violation list.
C14_AggregatorOutcome ==
    CleanPass =>
        /\ Unwrap(context).entry_point_out.aggregator_info = None =>
              /\ \A i \in 1..Len(reads) : reads[i].call # "validateUserOpSignature"
              /\ aggregator_task.out = "NotNeeded"
              /\ ReturnedKind("Success") =>
                    Unwrap(Unwrap(result).success).aggregator_signature = None
        /\ C14_Answered("signature") =>
              /\ aggregator_task.out = "SuccessWithSignature"
              /\ ~Reported(AggregatorValidationFailed)
              /\ ReturnedKind("Success") =>
                    Unwrap(Unwrap(result).success).aggregator_signature = Some("sig")
        /\ C14_Answered("JsonRpcClientError") =>
              /\ aggregator_task.out = "ValidationFailed"
              /\ ~ReturnedKind("Success")
              /\ (Done /\ Unwrap(result).kind # "Other") =>
                    Reported(AggregatorValidationFailed)
        /\ C14_Answered("other error") =>
              /\ ReturnedKind("Other")
              /\ Unwrap(result).violations = <<>>
        /\ Reported(AggregatorValidationFailed) => C14_Answered("JsonRpcClientError")

\* The aggregator call reverted with a JSON-RPC client error after the
\* code hash was retrieved, and the call returned exactly
\* Violations([AggregatorValidationFailed]).
C14_Witness ==
    /\ CleanPass
    /\ C14_Answered("JsonRpcClientError")
    /\ code_hash_task.state = "ok"
    /\ result = Some(Violations(<<AggregatorValidationFailed>>))

-----------------------------------------------------------------------------
(* C15 *)

\* What simulate_validation returns once both futures are ready, from
\* their values alone.
C15_Joined ==
    LET all == (IF C13_Mismatch THEN <<CodeHashChanged>> ELSE <<>>)
               \o (IF aggregator_task.out = "ValidationFailed"
                   THEN <<AggregatorValidationFailed>> ELSE <<>>)
    IN IF all # <<>> THEN Violations(all)
       ELSE Success(SimulationSuccess(C13_Computed, aggregator_task.sig))

\* C15: in every interleaving of the two post-validation futures, as soon
\* as one ends in a fatal error the call returns SimulationError::Other
\* with that error, the other future is awaited no further (it is dropped
\* if it was still pending), and neither a SimulationSuccess nor a
\* violation list is returned; when both end without a fatal error the
\* result is determined by their values, whichever finished first; and
\* until one fails or both are ready the call does not return.
C15_Join ==
    CleanPass =>
        /\ (code_hash_task.state = "err" \/ aggregator_task.state = "err") =>
              /\ Done
              /\ ~(code_hash_task.state = "err" /\ aggregator_task.state = "err")
              /\ result = Some(Failure(IF code_hash_task.state = "err"
                                       THEN "get_code_hash"
                                       ELSE "validate_aggregator_signature"))
              /\ code_hash_task.state \in {"err", "ok", "cancelled"}
              /\ aggregator_task.state \in {"err", "ok", "cancelled"}
        /\ (code_hash_task.state = "ok" /\ aggregator_task.state = "ok") =>
              /\ Done
              /\ result = Some(C15_Joined)
        /\ Done =>
              /\ code_hash_task.state # "pending"
              /\ aggregator_task.state # "pending"
              /\ "cancelled" \in {code_hash_task.state, aggregator_task.state} =>
                    "err" \in {code_hash_task.state, aggregator_task.state}
        /\ ~Done =>
              "pending" \in {code_hash_task.state, aggregator_task.state}

\* The code-hash retrieval failed while the aggregator call was pending:
\* the call returned the error and the aggregator call was dropped, never
\* served.
C15_Witness ==
    /\ CleanPass
    /\ code_hash_task.state = "err"
    /\ aggregator_task.state = "cancelled"
    /\ ReturnedKind("Other")
    /\ \A i \in 1..Len(reads) : reads[i].call # "validateUserOpSignature"

-----------------------------------------------------------------------------
(* Vocabulary of the properties of the rule engine                         *)

\* The entity of the phase of index 0, 1, 2.
PhaseEntities == <<"Factory", "Account", "Paymaster">>

\* The address the operation declares for an entity of a phase, if any.
DeclaredAddress(entity) ==
    IF entity = "Factory" THEN factory(op)
    ELSE IF entity = "Account" THEN Some(op.sender)
    ELSE paymaster(op)

\* The stake info the ValidationOutput carries for an entity of a phase.
ReportedStake(entity) ==
    IF entity = "Factory" THEN Unwrap(context).entry_point_out.factory_info
    ELSE IF entity = "Account" THEN Unwrap(context).entry_point_out.sender_info
    ELSE Unwrap(context).entry_point_out.paymaster_info

\* The phase of index i is in the trace and its entity is declared.
PhaseChecked(i) ==
    /\ i < Len(Unwrap(tracer_out).phases)
    /\ IsSome(DeclaredAddress(PhaseEntities[i + 1]))

\* The slot accesses of the phase of index i, in the order of the trace.
AccessesOf(i) == SlotAccesses(Unwrap(tracer_out).phases[i + 1].storage_accesses)

\* What the classifier says of the access of the phase of index i.
RestrictionOf(i, access) ==
    get_storage_restriction(
        [slots_by_address |-> Unwrap(tracer_out).associated_slots_by_address,
         is_wallet_creation |-> op.init_code # <<>>,
         entry_point_address |-> ENTRY_POINT,
         entity_address |-> Unwrap(DeclaredAddress(PhaseEntities[i + 1])),
         sender_address |-> op.sender,
         accessed_address |-> access.address,
         slot |-> access.slot])

\* How many times v is in the list.
Count(list, v) == Cardinality({j \in 1..Len(list) : list[j] = v})

-----------------------------------------------------------------------------
(* C16 *)

\* The phase of index i needs stake.
C16_NeedsStake(i) ==
    \/ \E j \in 1..Len(AccessesOf(i)) :
          RestrictionOf(i, AccessesOf(i)[j]) = "NeedsStake"
    \/ /\ PhaseEntities[i + 1] = "Paymaster"
       /\ Unwrap(context).entry_point_out.return_info.paymaster_context # <<>>

\* C16: for every phase whose entity is present, the entity is appended
\* (once) to entities_needing_stake if and only if some slot access of the
\* phase classifies as NeedsStake or the entity is the Paymaster and the
\* paymaster_context is not empty; NotStaked(entity, its address,
\* min_stake_value, min_unstake_delay) is emitted (once) if and only if the
\* entity needs stake and its stake info fails the stake predicate.
C16_NeedsStakeRule ==
    RulesRan =>
        \A i \in 0..2 : PhaseChecked(i) =>
            LET entity == PhaseEntities[i + 1]
                not_staked == NotStaked(entity, Unwrap(DeclaredAddress(entity)),
                                        SimSettings.min_stake_value,
                                        SimSettings.min_unstake_delay)
            IN
            /\ Count(entities_needing_stake, entity) =
                  IF C16_NeedsStake(i) THEN 1 ELSE 0
            /\ Count(violations, not_staked) =
                  IF C16_NeedsStake(i) /\ ~is_staked(ReportedStake(entity), SimSettings)
                  THEN 1 ELSE 0
            /\ \A j \in 1..Len(violations) :
                  (violations[j].kind = "NotStaked" /\ violations[j].entity = entity)
                  => violations[j] = not_staked

\* An unstaked paymaster returned a context and touched no storage: the
\* only violation is NotStaked(Paymaster, ...) and the paymaster is listed
\* as needing stake.
C16_Witness ==
    /\ RulesRan
    /\ PhaseChecked(2)
    /\ AccessesOf(2) = <<>>
    /\ Unwrap(context).entry_point_out.return_info.paymaster_context # <<>>
    /\ violations = <<NotStaked("Paymaster", PAYMASTER, SimSettings.min_stake_value,
                                SimSettings.min_unstake_delay)>>
    /\ entities_needing_stake = <<"Paymaster">>

-----------------------------------------------------------------------------
(* C17 *)

\* The addresses of the storage accesses of the phase of index i.
C17_Addresses(i) ==
    {Unwrap(tracer_out).phases[i + 1].storage_accesses[j].address :
        j \in 1..Len(Unwrap(tracer_out).phases[i + 1].storage_accesses)}

\* C17: a phase whose entity the operation does not declare contributes no
\* violation, no entry of entities_needing_stake and no address of
\* accessed_addresses, whatever its record holds; the account phase is
\* never skipped.
C17_AbsentEntitySkipped ==
    RulesRan =>
        /\ \A i \in 0..2 :
              (i < Len(Unwrap(tracer_out).phases) /\ ~PhaseChecked(i)) =>
                 /\ \A j \in 1..Len(violations) :
                       violations[j].entity # PhaseEntities[i + 1]
                 /\ Count(entities_needing_stake, PhaseEntities[i + 1]) = 0
        /\ accessed_addresses =
              UNION {C17_Addresses(i) : i \in {k \in 0..2 : PhaseChecked(k)}}
        /\ PhaseChecked(1)
        /\ C17_Addresses(1) \subseteq accessed_addresses
        /\ Unwrap(tracer_out).phases[2].called_with_value =>
              Count(violations, CallHadValue("Account")) = 1

\* The operation declares no factory, the phase of the factory used a
\* forbidden opcode and touched storage, and the rule engine recorded no
\* violation and no accessed address.
C17_Witness ==
    /\ RulesRan
    /\ factory(op) = None
    /\ Unwrap(tracer_out).phases[1].forbidden_opcodes_used # <<>>
    /\ Unwrap(tracer_out).phases[1].storage_accesses # <<>>
    /\ violations = <<>>
    /\ entities_needing_stake = <<>>
    /\ accessed_addresses = {}

-----------------------------------------------------------------------------
(* C18 *)

\* 1 if the flag is set in the record of the phase of index i, else 0.
C18_Flag(i, flag) == IF Unwrap(tracer_out).phases[i + 1][flag] THEN 1 ELSE 0

C18_Kinds ==
    {"UsedForbiddenOpcode", "InvalidGasOpcode", "CallHadValue", "OutOfGas",
     "AccessedUndeployedContract", "CalledHandleOps"}

\* C18: for every phase of index 0, 1, 2 whose entity is present, the
\* violations attributed to Factory, Account, Paymaster respectively are
\* exactly: one UsedForbiddenOpcode per listed opcode, InvalidGasOpcode,
\* CallHadValue, OutOfGas, CalledHandleOps for the flags set, and one
\* AccessedUndeployedContract per listed address; no violation of these
\* kinds is attributed to any other entity or lacks its cause.
C18_PhaseRules ==
    RulesRan =>
        /\ \A i \in 0..2 : PhaseChecked(i) =>
              LET entity == PhaseEntities[i + 1]
                  phase == Unwrap(tracer_out).phases[i + 1]
              IN
              /\ \A o \in Opcodes :
                    Count(violations, UsedForbiddenOpcode(entity, o)) =
                       Count(phase.forbidden_opcodes_used, o)
              /\ \A a \in AccessAddrs \cup {UNRELATED, AGGREGATOR} :
                    Count(violations, AccessedUndeployedContract(entity, a)) =
                       Count(phase.undeployed_contract_accesses, a)
              /\ Count(violations, InvalidGasOpcode(entity)) =
                    C18_Flag(i, "used_invalid_gas_opcode")
              /\ Count(violations, CallHadValue(entity)) =
                    C18_Flag(i, "called_with_value")
              /\ Count(violations, OutOfGas(entity)) = C18_Flag(i, "ran_out_of_gas")
              /\ Count(violations, CalledHandleOps(entity)) =
                    C18_Flag(i, "called_handle_ops")
        /\ \A j \in 1..Len(violations) :
              violations[j].kind \in C18_Kinds =>
                 \E i \in 0..2 :
                    /\ PhaseChecked(i)
                    /\ violations[j].entity = PhaseEntities[i + 1]
                    /\ violations[j].kind = "UsedForbiddenOpcode" =>
                          Count(Unwrap(tracer_out).phases[i + 1]
                                        .forbidden_opcodes_used,
                                     violations[j].opcode) > 0
                    /\ violations[j].kind = "AccessedUndeployedContract" =>
                          Count(Unwrap(tracer_out).phases[i + 1]
                                        .undeployed_contract_accesses,
                                     Unwrap(violations[j].address)) > 0

\* The factory used SELFBALANCE in its phase and the only violation is
\* UsedForbiddenOpcode(Factory, SELFBALANCE).
C18_Witness ==
    /\ RulesRan
    /\ PhaseChecked(0)
    /\ Unwrap(tracer_out).phases[1].forbidden_opcodes_used = <<"SELFBALANCE">>
    /\ violations = <<UsedForbiddenOpcode("Factory", "SELFBALANCE")>>

-----------------------------------------------------------------------------
(* C19 *)

\* The accesses of the phase of index i that classify as Banned, in the
\* order of the trace.
C19_Banned(i) ==
    SelectSeq(AccessesOf(i), LAMBDA access : RestrictionOf(i, access) = "Banned")

\* The addresses of a list of accesses, each once, in the order of their
\* first occurrence.
C19_FirstOccurrences(accesses) ==
    LET firsts == {j \in 1..Len(accesses) :
                      \A k \in 1..(j - 1) : accesses[k].address # accesses[j].address}
    IN [n \in 1..Cardinality(firsts) |->
           accesses[CHOOSE j \in firsts :
                       Cardinality({k \in firsts : k < j}) = n - 1].address]

\* The addresses of the InvalidStorageAccess violations of an entity, in
\* the order of the violation list.
C19_Emitted(entity) ==
    LET emitted == SelectSeq(violations,
                             LAMBDA v : /\ v.kind = "InvalidStorageAccess"
                                        /\ v.entity = entity)
    IN [n \in 1..Len(emitted) |-> Unwrap(emitted[n].address)]

\* C19: within one phase, InvalidStorageAccess(entity, address) is emitted
\* exactly once for each distinct address with a slot classified Banned, in
\* the order in which the addresses were first found banned, whatever else
\* the slots of the address classify as; an address with no banned slot
\* yields none.
C19_BannedOncePerAddress ==
    RulesRan =>
        \A i \in 0..2 :
            C19_Emitted(PhaseEntities[i + 1]) =
                IF PhaseChecked(i) THEN C19_FirstOccurrences(C19_Banned(i))
                ELSE <<>>

\* A phase touched two banned slots of one address and the rule engine
\* emitted InvalidStorageAccess once.
C19_Witness ==
    /\ RulesRan
    /\ \E i \in 0..2 :
          /\ PhaseChecked(i)
          /\ Len(C19_Banned(i)) = 2
          /\ C19_Banned(i)[1].address = C19_Banned(i)[2].address
          /\ C19_Banned(i)[1].slot # C19_Banned(i)[2].slot
          /\ violations = <<InvalidStorageAccess(PhaseEntities[i + 1],
                                                 C19_Banned(i)[1].address)>>

-----------------------------------------------------------------------------
(* C20 *)

\* C20: when the ValidationOutput carries aggregator_info, Aggregator is
\* appended to entities_needing_stake after all phase entities, whatever
\* the phases hold, and NotStaked(Aggregator, its address, min_stake_value,
\* min_unstake_delay) is emitted if and only if the aggregator's stake info
\* fails the stake predicate; without aggregator_info neither happens.
C20_AggregatorStake ==
    RulesRan =>
        LET info == Unwrap(context).entry_point_out.aggregator_info IN
        /\ IsSome(info) =>
              /\ Count(entities_needing_stake, "Aggregator") = 1
              /\ entities_needing_stake[Len(entities_needing_stake)] = "Aggregator"
              /\ Count(violations,
                       NotStaked("Aggregator", Unwrap(info).address,
                                 SimSettings.min_stake_value,
                                 SimSettings.min_unstake_delay)) =
                    IF is_staked(Unwrap(info).stake_info, SimSettings) THEN 0 ELSE 1
              /\ \A j \in 1..Len(violations) :
                    violations[j].entity = "Aggregator" =>
                       /\ violations[j].kind = "NotStaked"
                       /\ violations[j].address = Some(Unwrap(info).address)
        /\ info = None =>
              /\ Count(entities_needing_stake, "Aggregator") = 0
              /\ \A j \in 1..Len(violations) : violations[j].entity # "Aggregator"

\* A staked aggregator is listed after a paymaster that needs stake, and
\* no NotStaked(Aggregator, ...) is emitted.
C20_Witness ==
    /\ RulesRan
    /\ IsSome(Unwrap(context).entry_point_out.aggregator_info)
    /\ is_staked(Unwrap(Unwrap(context).entry_point_out.aggregator_info).stake_info,
                 SimSettings)
    /\ entities_needing_stake = <<"Paymaster", "Aggregator">>
    /\ \A j \in 1..Len(violations) : violations[j].entity # "Aggregator"

-----------------------------------------------------------------------------
(* C21 *)

\* The number of phases of the trace the call got.
C21_NumPhases == Len(Unwrap(tracer_out).phases)

\* The revert data of the trace carries the given selector.
C21_Reverted(selector) ==
    /\ Traced
    /\ C21_NumPhases \in 1..3
    /\ IsSome(Unwrap(tracer_out).revert_data)
    /\ Unwrap(Unwrap(tracer_out).revert_data).selector = selector

\* C21: when the revert data decodes as FailedOp and the trace has P
\* phases, 1 <= P <= 3, the call returns the single violation
\* UnintendedRevertWithMessage(entity, reason, address), entity being
\* Factory, Account, Paymaster for P = 1, 2, 3 and address the one the
\* operation declares for it (absent if it declares none); when the revert
\* data decodes as neither FailedOp nor ValidationOutput it returns
\* UnintendedRevert of that same entity.
C21_RevertAttribution ==
    /\ C21_Reverted("FailedOp") =>
          result = Some(Violations(<<UnintendedRevertWithMessage(
                       PhaseEntities[C21_NumPhases],
                       Unwrap(Unwrap(tracer_out).revert_data).reason,
                       DeclaredAddress(PhaseEntities[C21_NumPhases]))>>))
    /\ (/\ Traced
        /\ C21_NumPhases \in 1..3
        /\ IsSome(Unwrap(tracer_out).revert_data)
        /\ Unwrap(Unwrap(tracer_out).revert_data).selector
              \notin {"FailedOp", "ValidationOutput"})
       => result = Some(Violations(<<UnintendedRevert(
                       PhaseEntities[C21_NumPhases])>>))

\* The factory phase of a wallet-creating operation reverted with FailedOp:
\* the violation names the factory and its address.
C21_Witness ==
    /\ C21_Reverted("FailedOp")
    /\ C21_NumPhases = 1
    /\ factory(op) = Some(FACTORY)
    /\ ReturnedKind("Violations")
    /\ Unwrap(result).violations =
          <<UnintendedRevertWithMessage("Factory", "AA23 reverted", Some(FACTORY))>>

-----------------------------------------------------------------------------
(* C22 *)

\* The operation creates the wallet.
C22_WalletCreation == op.init_code # <<>>

\* Account is listed as needing stake, or NotStaked(Account, ...) is emitted.
C22_AccountStakeAsked ==
    \/ Count(entities_needing_stake, "Account") > 0
    \/ \E j \in 1..Len(violations) :
          violations[j].kind = "NotStaked" /\ violations[j].entity = "Account"

\* C22: in the Account phase the accessing entity is the sender, so when
\* the operation does not create the wallet every storage access of that
\* phase classifies as Allowed or Banned, never NeedsStake; Account is in
\* entities_needing_stake, and NotStaked(Account, ...) is emitted, only for
\* wallet-creation operations.
C22_AccountStakeOnlyInCreation ==
    RulesRan =>
        /\ Unwrap(DeclaredAddress("Account")) = op.sender
        /\ ~C22_WalletCreation =>
              \A accesses \in {AccessesOf(1)} : \A j \in 1..Len(accesses) :
                  RestrictionOf(1, accesses[j]) \in {"Allowed", "Banned"}
        /\ C22_AccountStakeAsked => C22_WalletCreation

\* An operation that creates no wallet touched, in the Account phase, a
\* slot associated with the sender in the storage of the paymaster and a
\* slot associated with nobody: the first is allowed, the second banned,
\* and no stake is asked of the account.
C22_Witness ==
    /\ RulesRan
    /\ ~C22_WalletCreation
    /\ AccessesOf(1) = <<[address |-> PAYMASTER, slot |-> "kS"],
                         [address |-> PAYMASTER, slot |-> "k0"]>>
    /\ violations = <<InvalidStorageAccess("Account", PAYMASTER)>>
    /\ entities_needing_stake = <<>>

-----------------------------------------------------------------------------
(* C23 *)

\* The call returned SimulationError::Violations from the context builder:
\* no context was built.
C23_FromContextBuilder == ReturnedKind("Violations") /\ Traced /\ ~RulesRan

\* The call returned SimulationError::Violations at the first checkpoint:
\* the two post-validation futures were never started.
C23_FromRuleCheckpoint ==
    ReturnedKind("Violations") /\ RulesRan /\ code_hash_task.state = "idle"

\* The call returned SimulationError::Violations at the second checkpoint.
C23_FromPostCheckpoint ==
    ReturnedKind("Violations") /\ RulesRan /\ code_hash_task.state = "ok"

\* C23: every SimulationError::Violations the call returns, from the
\* context builder, the first checkpoint or the second, carries a list of
\* at least one violation, so that its first element exists.
C23_ViolationsNonEmpty ==
    /\ (IsSome(result) /\ Unwrap(result).kind = "Violations") =>
          Len(Unwrap(result).violations) >= 1
    /\ ReturnedKind("Violations") =>
          \/ C23_FromContextBuilder
          \/ C23_FromRuleCheckpoint
          \/ C23_FromPostCheckpoint

\* The traced call did not revert: the context builder's single violation
\* comes back as a list of one element, which is its first.
C23_Witness ==
    /\ C23_FromContextBuilder
    /\ Unwrap(tracer_out).revert_data = None
    /\ Len(Unwrap(result).violations) = 1
    /\ Head(Unwrap(result).violations) = DidNotRevert

====
